---- MODULE Spec2Model ----
(***************************************************************************)
(* Model of Plugins/Algorithms/Control/Internal/ZerosAndPoles.py:           *)
(*   transformRootsToPoly2, class ZerosAndPolesSISO, class ZerosAndPoles.   *)
(*                                                                         *)
(* Number domain.  Python floats / complex numbers are modelled exactly on *)
(* the integers and the Gaussian integers [re |-> Int, im |-> Int]; a      *)
(* quotient num/den is kept as the pair (num, den) and compared by cross   *)
(* multiplication.  Frequencies are kept in units of 1/(2*pi) Hz so that   *)
(* the angular frequency 2*pi*f is an integer.                             *)
(*                                                                         *)
(* Python sequences are 0-based, TLA+ sequences 1-based: Python x[i] is    *)
(* x[i+1] here; index values that the program receives or returns (keys,   *)
(* u_indices, y_indices) keep their 0-based Python values.                  *)
(***************************************************************************)
EXTENDS Integers, Sequences, FiniteSets, TLC

VARIABLES
    arg,      \* the zpk tuple handed to ZerosAndPolesSISO(...) by the SISO scenario
    roots,    \* the vector handed to transformRootsToPoly2(...) by the SISO scenario
    heap,     \* the ZerosAndPolesSISO objects, by identity (object id = position)
    mimo,     \* the ZerosAndPoles object of the MIMO scenario, or NoObject
    ret       \* outcome of the last call: operation, arguments, error kind, value

vars == <<arg, roots, heap, mimo, ret>>

(***************************************************************************)
(* Bounds of the model                                                      *)
(***************************************************************************)
MaxZeros     == 4   \* longest zeros vector of a root-form tuple
MaxPoles     == 2   \* longest poles vector of a root-form tuple
MaxPolyRoots == 4   \* longest vector handed to transformRootsToPoly2 directly
MaxRows      == 2   \* rows of a matrix argument

(***************************************************************************)
(* Complex arithmetic on Gaussian integers                                   *)
(***************************************************************************)
C(x, y)    == [re |-> x, im |-> y]
CReal(x)   == [re |-> x, im |-> 0]
CAdd(a, b) == [re |-> a.re + b.re, im |-> a.im + b.im]
CSub(a, b) == [re |-> a.re - b.re, im |-> a.im - b.im]
CNeg(a)    == [re |-> 0 - a.re, im |-> 0 - a.im]
CMul(a, b) == [re |-> a.re * b.re - a.im * b.im, im |-> a.re * b.im + a.im * b.re]
Conj(a)    == [re |-> a.re, im |-> 0 - a.im]
AbsSq(a)   == a.re * a.re + a.im * a.im
AbsInt(x)  == IF x < 0 THEN 0 - x ELSE x
MaxInt(x, y) == IF x >= y THEN x ELSE y
MinInt(x, y) == IF x <= y THEN x ELSE y

\* Pools the scenarios draw their inputs from
RootPool == {C(2, 0), C(1, 2), C(1, -2), C(0, 1)}
PolyPool == {C(1, 2), C(1, -2), C(4, -3), C(4, 3), C(3, 0)}
GainPool == {-1, 2}
SPoints  == {C(2, 0), C(0, 0), C(1, 2), C(1, 1)}
SArrays  == {<<C(1, 2), C(2, 0), C(3, 0)>>, <<C(0, 0), C(1, 1)>>}

SeqsUpTo(S, n) == UNION {[1..m -> S] : m \in 0..n}

(***************************************************************************)
(* Error kinds (Python exception classes)                                   *)
(***************************************************************************)
NoError           == "none"
ValueError        == "ValueError"
TypeError         == "TypeError"
IndexError        == "IndexError"
UnboundLocalError == "UnboundLocalError"
ZeroDivisionError == "ZeroDivisionError"

(***************************************************************************)
(* transformRootsToPoly2                                                    *)
(***************************************************************************)
\* roots[0:nroots:2] and roots[1:nroots:2]
EvenSlice(r) == [j \in 1..(Len(r) \div 2) |-> r[2 * j - 1]]
OddSlice(r)  == [j \in 1..(Len(r) \div 2) |-> r[2 * j]]

\* slip: the imaginary parts are not compared
isConj_realPartOnly(r1, r2) == r1.re = r2.re

\* |r1.conj() - r2| < eps*max(1, |r1.real|) with eps = 100*2^-52.  On Gaussian
\* integers the left side is 0 or at least 1, and the right side is below 1
\* for every |r1.real| < 2^52/100, so the test passes exactly when the
\* difference is 0.
isConj(r1, r2) == AbsSq(CSub(Conj(r1), r2)) = 0

\* slip: the two columns are exchanged
PolyRow_swapped(r1, r2) == <<CNeg(CAdd(r1, r2)).re, CMul(r1, r2).re>>

\* c[:,0] = (r1*r2).real ; c[:,1] = (-(r1+r2)).real
PolyRow(r1, r2) == <<CMul(r1, r2).re, CNeg(CAdd(r1, r2)).re>>

transformRootsToPoly2(r) ==
    LET nroots == Len(r)
        np     == nroots \div 2
        r1     == EvenSlice(r)
        r2     == OddSlice(r)
    IN  IF nroots % 2 # 0
        THEN [err |-> ValueError, msg |-> "Number of roots must be even.",
              roots |-> <<>>, c |-> <<>>]
        ELSE IF \E j \in 1..np : ~isConj(r1[j], r2[j])
        THEN [err |-> ValueError, msg |-> "Vector of roots are not all conjugate complex numbers",
              roots |-> r, c |-> <<>>]
        ELSE [err |-> NoError, msg |-> "", roots |-> <<>>,
              c |-> [j \in 1..np |-> PolyRow(r1[j], r2[j])]]

(***************************************************************************)
(* Python / numpy values handed to the constructors                          *)
(***************************************************************************)
None == <<>>

\* a Python list of rows, or a numpy array of shape (0, 2)
PyList(rws)  == [kind |-> "list", rows |-> rws]
EmptyNx2     == [kind |-> "ndarray", rows |-> <<>>]

\* numpy.array(m, dtype=float, ndmin=2): the list [] becomes an array of shape
\* (1, 0), a list of rows keeps its shape, an array keeps its shape
Array2(m) ==
    IF m.kind = "ndarray" THEN [shape0 |-> 0, shape1 |-> 2, rows |-> <<>>]
    ELSE IF Len(m.rows) = 0 THEN [shape0 |-> 1, shape1 |-> 0, rows |-> <<<<>>>>]
    ELSE [shape0 |-> Len(m.rows), shape1 |-> Len(m.rows[1]), rows |-> m.rows]

IsReal(c) == c.im = 0
IsCplx(c) == c.im # 0
NegReal(c) == 0 - c.re
MapSeq(Op(_), s) == [i \in 1..Len(s) |-> Op(s[i])]

(***************************************************************************)
(* numpy.polynomial.polynomial.polyroots([a, b, 1.0]): the two roots of     *)
(* s^2 + b*s + a, sorted (numpy sorts complex values by real part, then by  *)
(* imaginary part).  The factor rows of the input pools have Gaussian-      *)
(* integer roots, for which the square root and the halving are exact.      *)
(***************************************************************************)
ISqrt(n) == CHOOSE r \in 0..n : r * r <= n /\ (r + 1) * (r + 1) > n

polyroots(a, b) ==
    LET disc == b * b - 4 * a
    IN  IF disc >= 0
        THEN <<C((0 - b - ISqrt(disc)) \div 2, 0), C((0 - b + ISqrt(disc)) \div 2, 0)>>
        ELSE <<C((0 - b) \div 2, 0 - (ISqrt(0 - disc) \div 2)),
               C((0 - b) \div 2, ISqrt(0 - disc) \div 2)>>

RECURSIVE Poly2Roots(_)
Poly2Roots(r2) ==
    IF Len(r2) = 0 THEN <<>>
    ELSE polyroots(r2[1][1], r2[1][2]) \o Poly2Roots(Tail(r2))

\* getRoots(r1, r2): -r1, then the root pair of every row of r2
getRoots(r1, r2) == [i \in 1..Len(r1) |-> C(0 - r1[i], 0)] \o Poly2Roots(r2)

(***************************************************************************)
(* class ZerosAndPolesSISO                                                  *)
(***************************************************************************)
SISOObject(k, n1, n2, d1, d2, z, p) ==
    [k |-> k, n1 |-> n1, n2 |-> n2, d1 |-> d1, d2 |-> d2, z |-> z, p |-> p]

NoSISO == SISOObject(0, <<>>, <<>>, <<>>, <<>>, <<>>, <<>>)

Raise(kind, text) == [err |-> kind, msg |-> text, obj |-> NoSISO]
Built(o)          == [err |-> NoError, msg |-> "", obj |-> o]

\* form (2): zpk = (k, n1, n2, d1, d2)
SISO_init_form2(zpk) ==
    LET n2 == Array2(zpk[3])
        d2 == Array2(zpk[5])
    IN  IF n2.shape1 # 2
        THEN Raise(ValueError, "Second dimension of zpk[2] must be 2")
        ELSE IF d2.shape1 # 2
        THEN Raise(ValueError, "Second dimension of zpk[4] must be 2")
        ELSE Built(SISOObject(zpk[1], zpk[2], n2.rows, zpk[4], d2.rows,
                              getRoots(zpk[2], n2.rows), getRoots(zpk[4], d2.rows)))

\* slip: the complex entries are not filtered out of z and p before pairing
SISO_init_form1_unfiltered(zpk) ==
    LET z  == zpk[2]
        p  == zpk[3]
        n1 == MapSeq(NegReal, SelectSeq(z, IsReal))
        d1 == MapSeq(NegReal, SelectSeq(p, IsReal))
        n2 == transformRootsToPoly2(IF \E i \in 1..Len(z) : IsCplx(z[i]) THEN z ELSE <<>>)
        d2 == transformRootsToPoly2(IF \E i \in 1..Len(p) : IsCplx(p[i]) THEN p ELSE <<>>)
    IN  IF n2.err # NoError THEN Raise(n2.err, n2.msg)
        ELSE IF d2.err # NoError THEN Raise(d2.err, d2.msg)
        ELSE Built(SISOObject(zpk[1], n1, n2.c, d1, d2.c, z, p))

\* form (1): zpk = (k, z, p)
SISO_init_form1(zpk) ==
    LET z  == zpk[2]
        p  == zpk[3]
        n1 == MapSeq(NegReal, SelectSeq(z, IsReal))
        d1 == MapSeq(NegReal, SelectSeq(p, IsReal))
        n2 == transformRootsToPoly2(SelectSeq(z, IsCplx))
        d2 == transformRootsToPoly2(SelectSeq(p, IsCplx))
    IN  IF n2.err # NoError THEN Raise(n2.err, n2.msg)
        ELSE IF d2.err # NoError THEN Raise(d2.err, d2.msg)
        ELSE Built(SISOObject(zpk[1], n1, n2.c, d1, d2.c, z, p))

SISO_init(zpk) ==
    IF Len(zpk) = 5 THEN SISO_init_form2(zpk)
    ELSE IF Len(zpk) = 3 THEN SISO_init_form1(zpk)
    ELSE Raise(ValueError, "Argument zpk must have 3 or 5 elements")

\* slip: the gain is scaled instead of overwritten
SISO_set_k_scaled(o, k_new) == [o EXCEPT !.k = o.k * k_new]

\* set_k: self.k = float(k_new)
SISO_set_k(o, k_new) == [o EXCEPT !.k = k_new]

(***************************************************************************)
(* evaluate_at_s.  den_min = m * 10^-e is the record [m, e] (m < 10^e when  *)
(* e > 0); the value num/den2 is the record [num, den, e] standing for      *)
(* num / (den * 10^-e).                                                     *)
(***************************************************************************)
DM(m, e) == [m |-> m, e |-> e]

Factor1(ss, zj)  == CAdd(ss, CReal(zj))                     \* ss + zj
\* slip: aj + bj*ss, the s**2 term is lost
Factor2_noSquare(ss, row) == CAdd(CReal(row[1]), CMul(CReal(row[2]), ss))
Factor2(ss, row) == CAdd(CReal(row[1]), CMul(CAdd(CReal(row[2]), ss), ss))  \* aj + (bj+ss)*ss

RECURSIVE Prod1(_, _, _)
Prod1(acc, c1, ss) ==
    IF Len(c1) = 0 THEN acc ELSE Prod1(CMul(acc, Factor1(ss, c1[1])), Tail(c1), ss)

RECURSIVE Prod2(_, _, _)
Prod2(acc, c2, ss) ==
    IF Len(c2) = 0 THEN acc ELSE Prod2(CMul(acc, Factor2(ss, c2[1])), Tail(c2), ss)

Numerator(o, ss)   == Prod2(Prod1(CReal(o.k), o.n1, ss), o.n2, ss)
Denominator(o, ss) == Prod2(Prod1(CReal(1), o.d1, ss), o.d2, ss)

\* abs_den >= den_min
AbsGE(den, den_min) ==
    IF den_min.e = 0 THEN AbsSq(den) >= den_min.m * den_min.m
    ELSE den.re # 0 \/ den.im # 0 \/ den_min.m = 0

Quot(num, den, e) == [num |-> num, den |-> den, e |-> e]

\* slip: > instead of >=
AbsGT(den, den_min) ==
    IF den_min.e = 0 THEN AbsSq(den) > den_min.m * den_min.m
    ELSE den.re # 0 \/ den.im # 0
ScalarDivide_strict(num, den, den_min) ==
    IF AbsGT(den, den_min) THEN Quot(num, den, 0)
    ELSE Quot(num, CReal(den_min.m), den_min.e)

\* scalar branch: if abs_den >= den_min: den2 = den else: den2 = den_min
ScalarDivide(num, den, den_min) ==
    IF AbsGE(den, den_min) THEN Quot(num, den, 0)
    ELSE Quot(num, CReal(den_min.m), den_min.e)

\* array branch: den2 = numpy.select([abs_den >= den_min*ones], [den], den_min)
ArrayDivide(num, den, den_min) ==
    [i \in 1..Len(den) |->
        LET cond == AbsGE(den[i], den_min)
        IN  Quot(num[i], IF cond THEN den[i] ELSE CReal(den_min.m),
                 IF cond THEN 0 ELSE den_min.e)]

\* s is [scalar |-> TRUE, v |-> point] or [scalar |-> FALSE, v |-> sequence of points]
Scalar(c)   == [scalar |-> TRUE, v |-> c]
ArrayOf(cs) == [scalar |-> FALSE, v |-> cs]

\* the value of num/den2 when the division returns
SISO_evaluate_at_s(o, s, den_min) ==
    IF s.scalar
    THEN ScalarDivide(Numerator(o, s.v), Denominator(o, s.v), den_min)
    ELSE ArrayDivide([i \in 1..Len(s.v) |-> Numerator(o, s.v[i])],
                     [i \in 1..Len(s.v) |-> Denominator(o, s.v[i])], den_min)

\* For a scalar s, num and den start as Python complex numbers.  A first-order
\* factor ss + zj (complex + numpy.float64, a float subclass) is again a Python
\* complex; a second-order factor aj + (bj+ss)*ss is a numpy.complex128 and
\* turns the product into one.
IsPythonComplex(c2) == Len(c2) = 0

\* return num/den2: the division of two Python complex numbers by 0j raises
\* ZeroDivisionError; with a numpy operand (complex128 scalar or array) it
\* returns inf or nan
SISO_evaluate_error(o, s, den_min) ==
    IF /\ s.scalar
       /\ IsPythonComplex(o.n2) /\ IsPythonComplex(o.d2)
       /\ Denominator(o, s.v) = CReal(0)
       /\ AbsGE(Denominator(o, s.v), den_min)
    THEN ZeroDivisionError
    ELSE NoError

(***************************************************************************)
(* Frequency range and frequency grid.  Misc.frequencyRange and            *)
(* Misc.from_Hz live in Plugins/Algorithms/Control/Misc.py.                 *)
(***************************************************************************)
FRangePool == {<<2, 32>>}
NPool      == {1, 2}
DenMinPool == {DM(0, 0), DM(1, 0), DM(2, 0)}

\* den_min = 1e-10 of frequencyResponse
DenMinMantissa == 1
DenMinExponent == 10
DenMinFreq     == DM(DenMinMantissa, DenMinExponent)

\* Misc.frequencyRange(z, p, None): a range (f_min, f_max), 0 < f_min < f_max,
\* picked from the zero and pole locations
AutoRange(z, p) ==
    IF \E i \in 1..Len(z) : AbsSq(z[i]) >= 4 THEN <<8, 32>>
    ELSE IF \E i \in 1..Len(p) : AbsSq(p[i]) >= 4 THEN <<8, 32>>
    ELSE <<2, 8>>

\* Misc.frequencyRange(z, p, f_range)
Misc_frequencyRange(z, p, f_range) == IF f_range # None THEN f_range ELSE AutoRange(z, p)

\* Misc.from_Hz(f) = 2*pi*f; f is kept in units of 1/(2*pi) Hz
Misc_from_Hz(f) == [i \in 1..Len(f) |-> f[i]]

SISO_frequencyRange(o, f_range) == Misc_frequencyRange(o.z, o.p, f_range)

RECURSIVE Pow(_, _)
Pow(b, e) == IF e = 0 THEN 1 ELSE b * Pow(b, e - 1)

\* numpy.linspace(f_min, f_max, n+1); exact for the ranges and n of the pools
linspace(f_min, f_max, num) ==
    [i \in 1..num |-> IF num = 1 THEN f_min
                      ELSE f_min + ((i - 1) * (f_max - f_min)) \div (num - 1)]

\* numpy.logspace(log10(f_min), log10(f_max), n+1): f_min * (f_max/f_min)^(i/n);
\* exact for the ranges and n of the pools
IRoot(x, n) == CHOOSE r \in 1..x : Pow(r, n) <= x /\ Pow(r + 1, n) > x
logspace(f_min, f_max, num) ==
    [i \in 1..num |-> IF num = 1 THEN f_min
                      ELSE IF i = num THEN f_max
                      ELSE f_min * Pow(IRoot(f_max \div f_min, num - 1), i - 1)]

FrequencyGrid(f_min, f_max, n, f_logspace) ==
    IF f_logspace THEN logspace(f_min, f_max, n + 1) ELSE linspace(f_min, f_max, n + 1)

\* w = zeros(len(f), complex); w.imag = from_Hz(f)
ImagAxis(f) == LET w == Misc_from_Hz(f) IN [i \in 1..Len(f) |-> C(0, w[i])]

SISO_frequencyResponse(o, n, f_range, f_logspace) ==
    LET fr == SISO_frequencyRange(o, f_range)
        f  == FrequencyGrid(fr[1], fr[2], n, f_logspace)
        y  == SISO_evaluate_at_s(o, ArrayOf(ImagAxis(f)), DenMinFreq)
    IN  [f |-> f, y |-> y]

(***************************************************************************)
(* Calls.  ret records the last call.                                       *)
(***************************************************************************)
Returned(op, args, val)  == [op |-> op, args |-> args, err |-> NoError, val |-> val]
Raised(op, args, kind)   == [op |-> op, args |-> args, err |-> kind, val |-> None]

NoObject == [nu |-> 0 - 1, ny |-> 0 - 1, zpk |-> <<>>]

\* ZerosAndPolesSISO(arg)
Construct ==
    /\ Len(heap) = 0
    /\ LET r == SISO_init(arg)
       IN  /\ heap' = IF r.err = NoError THEN <<r.obj>> ELSE heap
           /\ ret'  = IF r.err = NoError THEN Returned("SISO_init", <<>>, 1)
                      ELSE Raised("SISO_init", <<>>, r.err)
    /\ UNCHANGED <<arg, roots, mimo>>

\* transformRootsToPoly2(roots)
CallTransform ==
    /\ LET r == transformRootsToPoly2(roots)
       IN  ret' = IF r.err = NoError THEN Returned("transformRootsToPoly2", <<>>, r.c)
                  ELSE Raised("transformRootsToPoly2", <<>>, r.err)
    /\ UNCHANGED <<arg, roots, heap, mimo>>

\* heap[id].set_k(k_new)
SetK(id, k_new) ==
    /\ id \in 1..Len(heap)
    /\ heap' = [heap EXCEPT ![id] = SISO_set_k(heap[id], k_new)]
    /\ ret'  = Returned("set_k", <<id, k_new>>, None)
    /\ UNCHANGED <<arg, roots, mimo>>

\* heap[id].evaluate_at_s(s, den_min)
Evaluate(id, s, den_min) ==
    /\ id \in 1..Len(heap)
    /\ ret' = IF SISO_evaluate_error(heap[id], s, den_min) # NoError
              THEN Raised("evaluate_at_s", <<id, s, den_min>>,
                          SISO_evaluate_error(heap[id], s, den_min))
              ELSE Returned("evaluate_at_s", <<id, s, den_min>>,
                            SISO_evaluate_at_s(heap[id], s, den_min))
    /\ UNCHANGED <<arg, roots, heap, mimo>>

\* heap[id].zeros()
Zeros(id) ==
    /\ id \in 1..Len(heap)
    /\ ret' = Returned("zeros", <<id>>, heap[id].z)
    /\ UNCHANGED <<arg, roots, heap, mimo>>

\* heap[id].poles()
Poles(id) ==
    /\ id \in 1..Len(heap)
    /\ ret' = Returned("poles", <<id>>, heap[id].p)
    /\ UNCHANGED <<arg, roots, heap, mimo>>

\* heap[id].frequencyResponse(n, f_range, f_logspace)
FrequencyResponse(id, n, f_range, f_logspace) ==
    /\ id \in 1..Len(heap)
    /\ ret' = Returned("frequencyResponse", <<id, n, f_range, f_logspace>>,
                       SISO_frequencyResponse(heap[id], n, f_range, f_logspace))
    /\ UNCHANGED <<arg, roots, heap, mimo>>

(***************************************************************************)
(* SISO scenario: one zpk tuple, or one roots vector, is drawn; the object  *)
(* is constructed and its operations are called in any order.               *)
(***************************************************************************)
Form1Inputs ==
    {<<k, z, p>> : k \in {2}, z \in SeqsUpTo(RootPool, MaxZeros),
                   p \in SeqsUpTo(RootPool, MaxPoles)}

\* second-order factor arguments: [] , a (0,2) array, rows with Gaussian-integer
\* roots, a row of width 3
Factor2Pool ==
    {PyList(<<>>), EmptyNx2, PyList(<<<<5, -2>>>>), PyList(<<<<2, -3>>, <<1, 0>>>>),
     PyList(<<<<1, 2, 3>>>>)}
Factor1Pool == {<<>>, <<-2>>, <<1, 0>>}

Form2Inputs ==
    {<<k, n1, n2, d1, d2>> : k \in {2}, n1 \in Factor1Pool, n2 \in Factor2Pool,
                             d1 \in Factor1Pool, d2 \in Factor2Pool}

\* tuples with neither 3 nor 5 elements
BadArityInputs == {<<>>, <<2, <<>>, <<>>, <<>>>>}

SInputs == {Scalar(c) : c \in SPoints} \cup {ArrayOf(a) : a \in SArrays}

InitSISO ==
    /\ \/ arg \in Form1Inputs \cup Form2Inputs \cup BadArityInputs /\ roots = <<>>
       \/ arg = <<>> /\ roots \in SeqsUpTo(PolyPool, MaxPolyRoots)
    /\ heap = <<>>
    /\ mimo = NoObject
    /\ ret  = Returned("none", <<>>, None)

NextSISO ==
    \/ Construct
    \/ CallTransform
    \/ \E k_new \in GainPool : SetK(1, k_new)
    \/ \E s \in SInputs, den_min \in DenMinPool : Evaluate(1, s, den_min)
    \/ Zeros(1)
    \/ Poles(1)
    \/ \E n \in NPool, f_range \in {None} \cup FRangePool, f_logspace \in BOOLEAN :
          FrequencyResponse(1, n, f_range, f_logspace)

SpecSISO == InitSISO /\ [][NextSISO]_vars

(***************************************************************************)
(* class ZerosAndPoles.  A matrix argument is a list or tuple of rows, each *)
(* row a list or tuple of cells; a cell is a reference to a SISO object of  *)
(* the heap or a raw zpk tuple.                                             *)
(***************************************************************************)
Ref(id)        == [tag |-> "obj", id |-> id, zpk |-> <<>>]
RawCell(zpk)   == [tag |-> "raw", id |-> 0, zpk |-> zpk]
Row(kind, cs)  == [kind |-> kind, cells |-> cs]
Matrix(kind, rws) == [kind |-> kind, rows |-> rws, id |-> 0]
SISOArg(id)    == [kind |-> "siso", rows |-> <<>>, id |-> id]
OtherArg       == [kind |-> "other", rows |-> <<>>, id |-> 0]

MIMOObject(nu, ny, zpk) == [nu |-> nu, ny |-> ny, zpk |-> zpk]

MIMORaise(kind, hp) == [err |-> kind, obj |-> NoObject, heap |-> hp]

\* for i in xrange(0,ny): for j in xrange(0,nu): promote self.zpk[i][j]
RECURSIVE Promote(_, _, _, _, _, _)
Promote(i, j, m, hp, nu, ny) ==
    IF i > ny THEN [err |-> NoError, obj |-> MIMOObject(nu, ny, m), heap |-> hp]
    ELSE IF j > nu THEN Promote(i + 1, 1, m, hp, nu, ny)
    ELSE IF j > Len(m.rows[i].cells) THEN MIMORaise(IndexError, hp)
    ELSE IF m.rows[i].cells[j].tag = "obj" THEN Promote(i, j + 1, m, hp, nu, ny)
    ELSE LET r == SISO_init(m.rows[i].cells[j].zpk)
         IN  IF r.err # NoError THEN MIMORaise(r.err, hp)
             ELSE IF m.rows[i].kind = "tuple" THEN MIMORaise(TypeError, hp)
             ELSE Promote(i, j + 1,
                          [m EXCEPT !.rows[i].cells[j] = Ref(Len(hp) + 1)],
                          Append(hp, r.obj), nu, ny)

MIMO_init(zpk, hp) ==
    IF zpk.kind = "siso"
    THEN [err |-> NoError, heap |-> hp,
          obj |-> MIMOObject(1, 1, Matrix("list", <<Row("list", <<Ref(zpk.id)>>)>>))]
    ELSE IF zpk.kind \notin {"list", "tuple"} THEN MIMORaise(ValueError, hp)
    ELSE IF Len(zpk.rows) = 0 THEN MIMORaise(IndexError, hp)
    ELSE Promote(1, 1, zpk, hp, Len(zpk.rows[1].cells), Len(zpk.rows))

\* slip: the lower bounds are not tested, so a negative component counts from
\* the end as Python indexing does
MIMO_getitem_negativeWraps(m, key) ==
    IF Len(key) # 2 THEN [err |-> TypeError, val |-> None]
    ELSE IF key[1] >= m.ny \/ key[1] < 0 - m.ny THEN [err |-> IndexError, val |-> None]
    ELSE IF key[2] >= m.nu \/ key[2] < 0 - m.nu THEN [err |-> IndexError, val |-> None]
    ELSE [err |-> NoError,
          val |-> m.zpk.rows[(IF key[1] < 0 THEN key[1] + m.ny ELSE key[1]) + 1]
                       .cells[(IF key[2] < 0 THEN key[2] + m.nu ELSE key[2]) + 1]]

\* __getitem__(key)
MIMO_getitem(m, key) ==
    IF Len(key) # 2 THEN [err |-> TypeError, val |-> None]
    ELSE IF key[1] < 0 \/ key[1] >= m.ny THEN [err |-> IndexError, val |-> None]
    ELSE IF key[2] < 0 \/ key[2] >= m.nu THEN [err |-> IndexError, val |-> None]
    ELSE [err |-> NoError, val |-> m.zpk.rows[key[1] + 1].cells[key[2] + 1]]

Range(n) == [i \in 1..n |-> i - 1]

\* self.zpk[i][j] used as a SISO object (i, j are 0-based and not negative)
AttributeError == "AttributeError"
CellError(m, i, j) ==
    IF i >= Len(m.zpk.rows) THEN IndexError
    ELSE IF j >= Len(m.zpk.rows[i + 1].cells) THEN IndexError
    ELSE IF m.zpk.rows[i + 1].cells[j + 1].tag # "obj" THEN AttributeError
    ELSE NoError
CellObject(m, hp, i, j) == hp[m.zpk.rows[i + 1].cells[j + 1].id]

\* the (j, i) pairs in the order the nested comprehension visits them
VisitOrder(ui, yi) ==
    [n \in 1..(Len(ui) * Len(yi)) |->
        <<ui[((n - 1) \div Len(yi)) + 1], yi[((n - 1) % Len(yi)) + 1]>>]

FirstCellError(m, order) ==
    IF \A n \in 1..Len(order) : CellError(m, order[n][2], order[n][1]) = NoError
    THEN NoError
    ELSE LET n == CHOOSE q \in 1..Len(order) :
                      /\ CellError(m, order[q][2], order[q][1]) # NoError
                      /\ \A r \in 1..(q - 1) : CellError(m, order[r][2], order[r][1]) = NoError
         IN  CellError(m, order[n][2], order[n][1])

\* the outcome of self.zpk[i][j].evaluate_at_s(s, den_min) for the cell alone
CellEvalError(m, hp, s, den_min, i, j) ==
    IF CellError(m, i, j) # NoError THEN CellError(m, i, j)
    ELSE SISO_evaluate_error(CellObject(m, hp, i, j), s, den_min)

FirstEvalError(m, hp, s, den_min, order) ==
    IF \A n \in 1..Len(order) :
          CellEvalError(m, hp, s, den_min, order[n][2], order[n][1]) = NoError
    THEN NoError
    ELSE LET n == CHOOSE q \in 1..Len(order) :
                      /\ CellEvalError(m, hp, s, den_min, order[q][2], order[q][1]) # NoError
                      /\ \A r \in 1..(q - 1) :
                            CellEvalError(m, hp, s, den_min, order[r][2], order[r][1]) = NoError
         IN  CellEvalError(m, hp, s, den_min, order[n][2], order[n][1])

\* slip: the nesting follows the storage order (outer rows, inner columns)
MIMO_evaluate_at_s_rowMajor(m, hp, s, den_min, u_indices, y_indices) ==
    LET ui == IF u_indices = None THEN Range(m.nu) ELSE u_indices
        yi == IF y_indices = None THEN Range(m.ny) ELSE y_indices
        e  == FirstEvalError(m, hp, s, den_min, VisitOrder(ui, yi))
    IN  IF e # NoError THEN [err |-> e, val |-> None]
        ELSE [err |-> NoError,
              val |-> [a \in 1..Len(yi) |-> [b \in 1..Len(ui) |->
                         SISO_evaluate_at_s(CellObject(m, hp, yi[a], ui[b]), s, den_min)]]]

\* Y = [[zpk[i][j].evaluate_at_s(s, den_min) for i in yi] for j in ui]
MIMO_evaluate_at_s(m, hp, s, den_min, u_indices, y_indices) ==
    LET ui == IF u_indices = None THEN Range(m.nu) ELSE u_indices
        yi == IF y_indices = None THEN Range(m.ny) ELSE y_indices
        e  == FirstEvalError(m, hp, s, den_min, VisitOrder(ui, yi))
    IN  IF e # NoError THEN [err |-> e, val |-> None]
        ELSE [err |-> NoError,
              val |-> [a \in 1..Len(ui) |-> [b \in 1..Len(yi) |->
                         SISO_evaluate_at_s(CellObject(m, hp, yi[b], ui[a]), s, den_min)]]]

\* f_min = min(...), f_max = max(...) over for i in yi: for j in ui
RECURSIVE RangeUnion(_, _, _, _)
RangeUnion(fr, m, hp, order) ==
    IF Len(order) = 0 THEN fr
    ELSE LET c == SISO_frequencyRange(CellObject(m, hp, order[1][1], order[1][2]), None)
         IN  RangeUnion(<<MinInt(fr[1], c[1]), MaxInt(fr[2], c[2])>>, m, hp, Tail(order))

MIMO_frequencyResponse(m, hp, n, f_range, f_logspace, u_indices, y_indices) ==
    IF f_range # None
    THEN \* ui and yi are assigned only in the else branch; line 502 reads them
         [err |-> UnboundLocalError, val |-> None]
    ELSE LET ui == IF u_indices = None THEN Range(m.nu) ELSE u_indices
             yi == IF y_indices = None THEN Range(m.ny) ELSE y_indices
             order == VisitOrder(yi, ui)   \* (i, j) pairs, i outer
             e  == IF Len(ui) = 0 \/ Len(yi) = 0 THEN IndexError
                   ELSE FirstCellError(m, [q \in 1..Len(order) |-> <<order[q][2], order[q][1]>>])
         IN  IF e # NoError THEN [err |-> e, val |-> None]
             ELSE LET first == SISO_frequencyRange(CellObject(m, hp, yi[1], ui[1]), None)
                      fr    == RangeUnion(first, m, hp, order)
                      f     == FrequencyGrid(fr[1], fr[2], n, f_logspace)
                      Y     == MIMO_evaluate_at_s(m, hp, ArrayOf(ImagAxis(f)), DenMinFreq, ui, yi)
                  IN  [err |-> Y.err, val |-> [f |-> f, Y |-> Y.val]]

(***************************************************************************)
(* MIMO scenario: the caller builds a SISO object, then a matrix from it    *)
(* and from raw tuples, and calls the matrix operations in any order.       *)
(***************************************************************************)
\* raw zpk tuples: three well-formed ones (RawC has real roots only), one with
\* 2 elements; the caller builds its own entity from RawA or RawC
RawA     == <<3, <<C(1, 1), C(1, -1)>>, <<C(2, 0)>>>>
RawB     == <<2, <<1>>, PyList(<<<<1, 0>>>>), <<>>, EmptyNx2>>
RawC     == <<3, <<>>, <<C(2, 0)>>>>
RawShort == <<3, <<>>>>
CellInputs == {RawA, RawC, RawShort}

RowPool(hp) ==
    {Row("list", <<RawCell(RawA)>>), Row("list", <<RawCell(RawB), RawCell(RawShort)>>),
     Row("tuple", <<RawCell(RawA)>>)}
    \cup (IF Len(hp) = 0 THEN {}
          ELSE {Row("list", <<Ref(1)>>), Row("tuple", <<Ref(1)>>),
                Row("list", <<Ref(1), RawCell(RawA)>>), Row("list", <<RawCell(RawB), Ref(1)>>),
                Row("list", <<Ref(1), Ref(Len(hp))>>)})

MatrixInputs(hp) ==
    {Matrix(kind, rws) : kind \in {"list", "tuple"}, rws \in SeqsUpTo(RowPool(hp), MaxRows)}
    \cup {OtherArg} \cup {SISOArg(id) : id \in 1..Len(hp)}

KeyPool == {<<0, 0, 0>>, <<0, 0>>, <<0, 1>>, <<1, 0>>, <<2, 0>>, <<-1, 0>>, <<0, -1>>}
\* (u_indices, y_indices)
SelPool == {<<None, None>>, <<<<1, 0>>, None>>, <<<<0>>, <<1, 0>>>>}
\* (n, f_range, f_logspace, u_indices, y_indices)
FreqInputs ==
    {<<1, None, FALSE, None, None>>, <<2, None, FALSE, None, <<0>>>>}
    \cup {<<2, None, TRUE, None, None>>, <<2, None, TRUE, <<1, 0>>, None>>}
    \cup {<<1, fr, TRUE, None, None>> : fr \in FRangePool}
    \cup {<<2, fr, FALSE, <<0>>, <<0>>>> : fr \in FRangePool}
\* (key, k_new) of mimo[key].set_k(k_new)
SetKInputs == {<<<<0, 0>>, -1>>}
\* (s, den_min)
EvalInputs ==
    {<<Scalar(C(2, 0)), DM(0, 0)>>, <<ArrayOf(<<C(2, 0), C(1, 1)>>), DM(1, 0)>>}

\* ZerosAndPolesSISO(zpk), kept by the caller
ConstructCell(zpk) ==
    /\ mimo = NoObject
    /\ heap = <<>>
    /\ LET r == SISO_init(zpk)
       IN  /\ heap' = IF r.err = NoError THEN Append(heap, r.obj) ELSE heap
           /\ ret'  = IF r.err = NoError THEN Returned("SISO_init", <<>>, Len(heap) + 1)
                      ELSE Raised("SISO_init", <<>>, r.err)
    /\ UNCHANGED <<arg, roots, mimo>>

\* ZerosAndPoles(zpk); the objects promoted before a failure are dropped with
\* the argument
ConstructMIMO ==
    /\ mimo = NoObject
    /\ \E zpk \in MatrixInputs(heap) :
          \E r \in {MIMO_init(zpk, heap)} :
              /\ mimo' = r.obj
              /\ heap' = IF r.err = NoError THEN r.heap ELSE heap
              /\ ret'  = IF r.err = NoError THEN Returned("MIMO_init", <<>>, None)
                         ELSE Raised("MIMO_init", <<>>, r.err)
    /\ UNCHANGED <<arg, roots>>

\* mimo[key]
GetItem(key) ==
    /\ mimo # NoObject
    /\ \E r \in {MIMO_getitem(mimo, key)} :
           ret' = [op |-> "getitem", args |-> <<key>>, err |-> r.err, val |-> r.val]
    /\ UNCHANGED <<arg, roots, heap, mimo>>

\* mimo[key].set_k(k_new)
SetKCell(key, k_new) ==
    /\ mimo # NoObject
    /\ \E r \in {MIMO_getitem(mimo, key)} :
           IF r.err # NoError
           THEN /\ ret' = Raised("cell_set_k", <<key, k_new>>, r.err)
                /\ heap' = heap
           ELSE /\ ret' = Returned("cell_set_k", <<key, k_new>>, None)
                /\ heap' = [heap EXCEPT ![r.val.id] = SISO_set_k(heap[r.val.id], k_new)]
    /\ UNCHANGED <<arg, roots, mimo>>

\* mimo.evaluate_at_s(s, den_min, u_indices, y_indices)
EvaluateMIMO(s, den_min, u_indices, y_indices) ==
    /\ mimo # NoObject
    /\ \E r \in {MIMO_evaluate_at_s(mimo, heap, s, den_min, u_indices, y_indices)} :
           ret' = [op |-> "MIMO_evaluate_at_s", args |-> <<s, den_min, u_indices, y_indices>>,
                   err |-> r.err, val |-> r.val]
    /\ UNCHANGED <<arg, roots, heap, mimo>>

\* mimo.frequencyResponse(n, f_range, f_logspace, u_indices, y_indices)
FrequencyResponseMIMO(n, f_range, f_logspace, u_indices, y_indices) ==
    /\ mimo # NoObject
    /\ \E r \in {MIMO_frequencyResponse(mimo, heap, n, f_range, f_logspace,
                                        u_indices, y_indices)} :
           ret' = [op |-> "MIMO_frequencyResponse",
                   args |-> <<n, f_range, f_logspace, u_indices, y_indices>>,
                   err |-> r.err, val |-> r.val]
    /\ UNCHANGED <<arg, roots, heap, mimo>>

Init ==
    /\ arg   = <<>>
    /\ roots = <<>>
    /\ heap  = <<>>
    /\ mimo  = NoObject
    /\ ret   = Returned("none", <<>>, None)

Next ==
    \/ \E zpk \in CellInputs : ConstructCell(zpk)
    \/ ConstructMIMO
    \/ \E key \in KeyPool : GetItem(key)
    \/ \E a \in SetKInputs : SetKCell(a[1], a[2])
    \/ \E a \in EvalInputs, sel \in SelPool : EvaluateMIMO(a[1], a[2], sel[1], sel[2])
    \/ \E a \in FreqInputs : FrequencyResponseMIMO(a[1], a[2], a[3], a[4], a[5])

Spec == Init /\ [][Next]_vars

(***************************************************************************)
(* Properties of the SISO scenario                                          *)
(***************************************************************************)
\* positions of v taken in input order
RealIdx(v) == {i \in 1..Len(v) : v[i].im = 0}
CplxIdx(v) == {i \in 1..Len(v) : v[i].im # 0}
Nth(S, j)  == CHOOSE i \in S : Cardinality({x \in S : x < i}) = j - 1

ConjugatePair(a, b) == a.re = b.re /\ a.im = 0 - b.im
\* the vector is a concatenation of consecutive conjugate pairs
PairwiseConjugate(v) ==
    /\ Len(v) % 2 = 0
    /\ \A j \in 1..(Len(v) \div 2) : ConjugatePair(v[2 * j - 1], v[2 * j])
\* the strictly-complex entries of v, in input order, pair up positionally
ComplexPartValid(v) ==
    /\ Cardinality(CplxIdx(v)) % 2 = 0
    /\ \A j \in 1..(Cardinality(CplxIdx(v)) \div 2) :
          ConjugatePair(v[Nth(CplxIdx(v), 2 * j - 1)], v[Nth(CplxIdx(v), 2 * j)])

\* k * product(s - v[i]) by direct substitution
RECURSIVE DirectProduct(_, _, _)
DirectProduct(acc, v, s) ==
    IF Len(v) = 0 THEN acc ELSE DirectProduct(CMul(acc, CSub(s, v[1])), Tail(v), s)

PointsOf(s)     == IF s.scalar THEN <<s.v>> ELSE s.v
ValuesOf(s, y)  == IF s.scalar THEN <<y>> ELSE y
RootFormBuilt   == Len(arg) = 3 /\ Len(heap) = 1
IsEvaluation    == ret.op = "evaluate_at_s" /\ ret.err = NoError

\* C1: a SISO entity built from root form (k, z, p), evaluated with
\* den_min = 0 at a point s where no pole lies, returns
\* k * product(s - z[i]) / product(s - p[i]) of the supplied z and p
\* (compared exactly by cross multiplication).
C1_EvaluationMatchesDirectSubstitution ==
    (RootFormBuilt /\ IsEvaluation /\ ret.args[3] = DM(0, 0)) =>
        LET pts == PointsOf(ret.args[2])
            ys  == ValuesOf(ret.args[2], ret.val)
        IN  /\ Len(ys) = Len(pts)
            /\ \A i \in 1..Len(pts) :
                  (\A j \in 1..Len(arg[3]) : arg[3][j] # pts[i]) =>
                      /\ ys[i].e = 0
                      /\ ys[i].den # CReal(0)
                      /\ CMul(ys[i].num, DirectProduct(CReal(1), arg[3], pts[i]))
                            = CMul(DirectProduct(CReal(heap[1].k), arg[2], pts[i]), ys[i].den)

C1_Witness ==
    /\ RootFormBuilt /\ IsEvaluation
    /\ arg[2] = <<C(1, 2), C(2, 0), C(1, -2)>>
    /\ arg[3] = <<C(1, -2), C(1, 2)>>
    /\ heap[1].k = -1
    /\ ret.args[2] = Scalar(C(1, 1))
    /\ ret.args[3] = DM(0, 0)
    /\ ret.val.num # CReal(0)

\* the split of a root vector v into first-order constants c1 and second-order rows c2
SplitOf(v, c1, c2) ==
    /\ Len(c1) = Cardinality(RealIdx(v))
    /\ \A j \in 1..Len(c1) : c1[j] = 0 - v[Nth(RealIdx(v), j)].re
    /\ 2 * Len(c2) = Cardinality(CplxIdx(v))
    /\ \A j \in 1..Len(c2) :
          LET a == v[Nth(CplxIdx(v), 2 * j - 1)]
              b == v[Nth(CplxIdx(v), 2 * j)]
          IN  c2[j] = <<a.re * b.re - a.im * b.im, 0 - (a.re + b.re)>>

C3_PolyRows ==
    (ret.op = "transformRootsToPoly2" /\ PairwiseConjugate(roots)) =>
        /\ ret.err = NoError
        /\ 2 * Len(ret.val) = Len(roots)
        /\ \A j \in 1..Len(ret.val) :
              LET a == roots[2 * j - 1]
                  b == roots[2 * j]
              IN  ret.val[j] = <<a.re * b.re - a.im * b.im, 0 - (a.re + b.re)>>
        /\ roots = <<C(1, 2), C(1, -2), C(4, -3), C(4, 3)>> => ret.val = <<<<5, -2>>, <<25, -8>>>>

C3_Witness ==
    /\ ret.op = "transformRootsToPoly2"
    /\ roots = <<C(1, 2), C(1, -2), C(4, -3), C(4, 3)>>
    /\ ret.val = <<<<5, -2>>, <<25, -8>>>>

\* C4: transformRootsToPoly2 raises ValueError, returning no coefficients,
\* exactly when the length is odd or some consecutive pair is not a conjugate
\* pair; a root-form construction whose strictly-complex zeros or poles are odd
\* in number or not positionally conjugate raises it too and builds no object.
C4_InvalidRootsRejected ==
    /\ ret.op = "transformRootsToPoly2" =>
          /\ ret.err = (IF PairwiseConjugate(roots) THEN NoError ELSE ValueError)
          /\ ret.err # NoError => ret.val = None
    /\ (ret.op = "SISO_init" /\ Len(arg) = 3
            /\ ~(ComplexPartValid(arg[2]) /\ ComplexPartValid(arg[3]))) =>
          /\ ret.err = ValueError
          /\ heap = <<>>

C4_Witness ==
    /\ ret.op = "transformRootsToPoly2"
    /\ roots = <<C(1, 2), C(1, -2), C(4, 3), C(1, -2)>>
    /\ ret.err = ValueError

\* numerator and denominator as products over the stored factors
RECURSIVE ClaimProd1(_, _)
ClaimProd1(c1, s) ==
    IF Len(c1) = 0 THEN CReal(1)
    ELSE CMul(C(s.re + c1[1], s.im), ClaimProd1(Tail(c1), s))
RECURSIVE ClaimProd2(_, _)
ClaimProd2(c2, s) ==
    IF Len(c2) = 0 THEN CReal(1)
    ELSE CMul(CAdd(CAdd(CMul(s, s), CMul(CReal(c2[1][2]), s)), CReal(c2[1][1])),
              ClaimProd2(Tail(c2), s))
ClaimDen(o, s) == CMul(ClaimProd1(o.d1, s), ClaimProd2(o.d2, s))
ClaimNum(o, s) == CMul(CReal(o.k), CMul(ClaimProd1(o.n1, s), ClaimProd2(o.n2, s)))

\* C5: in SISO evaluate_at_s the divisor at a point is den_min when
\* |denominator(s)| < den_min and the denominator itself otherwise, for a scalar
\* s and for every element of a collection alike; at a pole with den_min > 0
\* the result is numerator(s)/den_min, and den_min = 0 never replaces the
\* denominator.
C5_DenMinFloor ==
    IsEvaluation =>
        LET o   == heap[ret.args[1]]
            dm  == ret.args[3]
            pts == PointsOf(ret.args[2])
            ys  == ValuesOf(ret.args[2], ret.val)
        IN  /\ Len(ys) = Len(pts)
            /\ \A i \in 1..Len(pts) :
                  LET den == ClaimDen(o, pts[i])
                  IN  /\ ys[i].num = ClaimNum(o, pts[i])
                      /\ IF AbsSq(den) < dm.m * dm.m
                         THEN ys[i].den = CReal(dm.m) /\ ys[i].e = dm.e
                         ELSE ys[i].den = den /\ ys[i].e = 0
                      /\ dm.m = 0 => ys[i].den = den

C5_Witness ==
    /\ RootFormBuilt /\ IsEvaluation
    /\ arg[3] = <<C(2, 0)>>
    /\ ret.args[2] = Scalar(C(2, 0))
    /\ ret.args[3] = DM(1, 0)
    /\ ret.val.den = CReal(1)
    /\ ret.val.num = ClaimNum(heap[1], C(2, 0))
    /\ ret.val.num # CReal(0)

\* the fields other than k agree
SameFactors(o1, o2) ==
    /\ o1.n1 = o2.n1 /\ o1.n2 = o2.n2 /\ o1.d1 = o2.d1 /\ o1.d2 = o2.d2
    /\ o1.z = o2.z /\ o1.p = o2.p

C6_Step ==
    (Len(heap) = 1 /\ Len(heap') = 1) =>
        /\ SameFactors(heap[1], heap'[1])
        /\ IF ret'.op = "set_k" THEN heap'[1].k = ret'.args[2]
           ELSE heap'[1].k = heap[1].k

\* C6: set_k makes k the value of the call and leaves n1, n2, d1, d2, z, p as
\* construction left them; evaluate_at_s, zeros, poles and frequencyResponse
\* change no field of the object.
C6_OnlySetKChangesGain == [][C6_Step]_vars

C6_Witness ==
    /\ Len(heap) = 1
    /\ ret.op = "set_k"
    /\ arg[1] = 2
    /\ heap[1].k = -1
    /\ Len(heap[1].n2) = 2
    /\ heap[1].z = arg[2]

(***************************************************************************)
(* Properties of the MIMO scenario                                          *)
(***************************************************************************)
\* error kind of a zpk tuple with neither 3 nor 5 elements
MalformedArgumentError == SISO_init(RawShort).err

KeyInRange(m, key) ==
    /\ 0 <= key[1] /\ key[1] < m.ny
    /\ 0 <= key[2] /\ key[2] < m.nu

C8_Original ==
    mimo # NoObject =>
        /\ mimo.ny = Len(mimo.zpk.rows)
        /\ \A i \in 1..Len(mimo.zpk.rows) :
              /\ Len(mimo.zpk.rows[i].cells) = mimo.nu
              /\ \A j \in 1..Len(mimo.zpk.rows[i].cells) :
                    mimo.zpk.rows[i].cells[j].tag = "obj"

\* the selected indices lie in the matrix
SelectedU(m, u_indices) == IF u_indices = None THEN Range(m.nu) ELSE u_indices
SelectedY(m, y_indices) == IF y_indices = None THEN Range(m.ny) ELSE y_indices
SelectionInRange(m, u_indices, y_indices) ==
    /\ \A a \in 1..Len(SelectedU(m, u_indices)) :
          0 <= SelectedU(m, u_indices)[a] /\ SelectedU(m, u_indices)[a] < m.nu
    /\ \A b \in 1..Len(SelectedY(m, y_indices)) :
          0 <= SelectedY(m, y_indices)[b] /\ SelectedY(m, y_indices)[b] < m.ny

SelectedRanges(m, hp, ui, yi) ==
    {SISO_frequencyRange(hp[m.zpk.rows[yi[b] + 1].cells[ui[a] + 1].id], None) :
        a \in 1..Len(ui), b \in 1..Len(yi)}

\* C10 as claimed: MIMO frequencyResponse over a selection of at least one cell
\* returns (frequencies, responses) whether f_range is given or omitted: a given
\* (f_min, f_max) is used unchanged, an omitted one is the minimum and the
\* maximum of the ranges of exactly the selected cells; the frequencies and
\* every leaf of the response have n+1 entries.
C10_Original ==
    (ret.op = "MIMO_frequencyResponse"
        /\ SelectionInRange(mimo, ret.args[4], ret.args[5])
        /\ Len(SelectedU(mimo, ret.args[4])) > 0
        /\ Len(SelectedY(mimo, ret.args[5])) > 0) =>
        LET n  == ret.args[1]
            fr == ret.args[2]
            ui == SelectedU(mimo, ret.args[4])
            yi == SelectedY(mimo, ret.args[5])
            rs == SelectedRanges(mimo, heap, ui, yi)
        IN  /\ ret.err = NoError
            /\ Len(ret.val.f) = n + 1
            /\ IF fr # None
               THEN ret.val.f[1] = fr[1] /\ ret.val.f[n + 1] = fr[2]
               ELSE /\ \E r \in rs : ret.val.f[1] = r[1]
                    /\ \A r \in rs : ret.val.f[1] <= r[1]
                    /\ \E r \in rs : ret.val.f[n + 1] = r[2]
                    /\ \A r \in rs : ret.val.f[n + 1] >= r[2]
            /\ Len(ret.val.Y) = Len(ui)
            /\ \A a \in 1..Len(ui) :
                  /\ Len(ret.val.Y[a]) = Len(yi)
                  /\ \A b \in 1..Len(yi) : Len(ret.val.Y[a][b]) = n + 1

\* C11 as claimed: evaluate_at_s with the default index selection on an entity
\* whose constructor returned without error returns a result, at any point s
\* (poles included) and for any den_min >= 0; it never ends in an error.
C11_Original ==
    (ret.op = "MIMO_evaluate_at_s" /\ ret.args[3] = None /\ ret.args[4] = None) =>
        ret.err = NoError

\* the entity stored at row i, column j (0-based)
CellId(m, i, j) == m.zpk.rows[i + 1].cells[j + 1].id

C12_Step ==
    (ret'.op = "cell_set_k" /\ ret'.err = NoError) =>
        \A i \in 0..(mimo.ny - 1), j \in 0..(mimo.nu - 1) :
            <<i, j>> # ret'.args[1] =>
                /\ heap'[CellId(mimo, i, j)].k = heap[CellId(mimo, i, j)].k
                /\ \A a \in EvalInputs :
                      SISO_evaluate_at_s(heap'[CellId(mimo, i, j)], a[1], a[2])
                          = SISO_evaluate_at_s(heap[CellId(mimo, i, j)], a[1], a[2])

\* C12 as claimed: a set_k applied to the entity of one cell of a matrix changes
\* neither the gain nor the evaluation result of any other cell, also when the
\* same SISO entity was placed in several cells.
C12_Original == [][C12_Step]_vars

====
